---- MODULE Spec2Model ----
(***************************************************************************)
(* A model of grearter/jsonrpc: the client's call tracker (client.go) and  *)
(* the server's message validation, session and registry (codec.go).       *)
(*                                                                         *)
(* Strings the code inspects character by character (method names) are     *)
(* sequences of one-character strings.  Goroutines are processes with a    *)
(* program counter named after the source line they are about to execute.  *)
(***************************************************************************)
EXTENDS Integers, Sequences, FiniteSets, TLC

\* ------------------------------------------------------------------ bounds
\* Number of Call / CallWithTimeout invocations made on the client.
MaxCalls == 2
\* Number of Close invocations made on the client.
MaxCloses == 2
\* Longest method string enumerated for the validation functions.
MaxMethodLen == 4
\* Number of Register calls made on the server.
MaxRegs == 2
\* Number of Requests a session decodes.
MaxReqs == 2

\* The number of values of Client.seqId and of Request.Id / Response.Id.  The
\* code's uint32 has 2^32, more than TLC's integers hold: ids are kept to this
\* many values instead, and the counter wraps to 0 in the same way.
IdSpace == 8

Calls == 1 .. MaxCalls
Closers == 1 .. MaxCloses

\* ------------------------------------------------------- strings.Split(s, ".")
Dot == "."
Alphabet == {"a", "b", Dot}

RECURSIVE SplitFrom(_, _, _)
\* The parts of s[i..] given the part `cur` collected so far.
SplitFrom(s, i, cur) ==
  IF i > Len(s) THEN <<cur>>
  ELSE IF s[i] = Dot THEN <<cur>> \o SplitFrom(s, i + 1, <<>>)
  ELSE SplitFrom(s, i + 1, Append(cur, s[i]))

Split(s) == SplitFrom(s, 1, <<>>)

\* Client.parseCall's validation: TRUE iff no "invalid method" error.
parseCallMissingEmptyCheck(method) ==
  LET parts == Split(method) IN ~(Len(parts) # 2 \/ parts[1] = <<>>)

parseCallAccepts(method) ==
  LET parts == Split(method)
  IN ~(Len(parts) # 2 \/ parts[1] = <<>> \/ parts[2] = <<>>)

\* Request.Regular: "ok" or the error it returns.
RegularNoMethodCheck(method) ==
  LET parts == Split(method)
  IN IF Len(parts) # 2 THEN "invalid method"
     ELSE IF parts[1] = <<>> THEN "invalid service name"
     ELSE "ok"

Regular(method) ==
  LET parts == Split(method)
  IN IF Len(parts) # 2 THEN "invalid method"
     ELSE IF parts[1] = <<>> THEN "invalid service name"
     ELSE IF parts[2] = <<>> THEN "invalid serviceMethod name"
     ELSE "ok"

\* The method strings the callers of the client model pass.
ClientMethods == { <<"a", Dot, "b">>, <<"a", "b">>, <<"a", Dot>> }

\* The error texts of the answers the client model's peer gives ("": success).
PeerErrors == {""}

\* ------------------------------------------------------------------- state
VARIABLES
  \* Client fields (client.go 25-35)
  calls,      \* map[uint32]*Call: a function from ids to call invocations
  closing, shutdown, seqId,
  reqMutex, m, \* the holder of each sync.Mutex
  conn,       \* the socket: "open", "broken" (peer or transport failed), "closed"
  \* the network and the peer
  wire,       \* ids of Requests the peer has received and not yet answered
  inbound,    \* Responses written by the peer and not yet decoded
  \* one Call / CallWithTimeout invocation per element of Calls
  api,        \* "none", "Call", "CallWithTimeout"
  method,     \* the method string passed
  cpc,        \* the caller: "idle", "wait" (blocked on call.done), "done"
  ret,        \* what the caller returned
  callId,     \* Call.id
  done,       \* Call.done: the channel's buffer (capacity 1)
  dpc,        \* the goroutine running Client.do
  \* the goroutine running Client.recv
  rpc, resp, rcall, rerr, fanTodo,
  \* the goroutines running Client.Close
  kpc,
  crashed,    \* the runtime ended the process (fatal error)
  \* history
  written,    \* ids of Requests whose Encode returned nil
  sends,      \* per call, the Responses sent on its channel, in order
  connCloses, \* how many times conn.Close() was called
  afterClose, \* per call, whether a Close had returned when it started
  hist,       \* whether connCloses and afterClose are recorded
  \* the validation functions applied to one method string
  pMethod, pClient, pServer,
  \* Server (codec.go 161-165) and one Connection session (79-83)
  serviceMap, \* map[string]*service
  regs,       \* Register calls made
  regErr,     \* what the last Register returned
  spc,        \* the session: "off", "s90", "s100", "s122", "s128", "closed"
  sreq,       \* the Request being handled
  sret,       \* the invoked method's return value and output
  sreqs,      \* the Requests decoded, in order
  sout,       \* the Responses handed to the encoder, in order
  invoked     \* the method invocations made, in order

clientVars ==
  << calls, closing, shutdown, seqId, reqMutex, m, conn, wire, inbound, api,
     method, cpc, ret, callId, done, dpc, rpc, resp, rcall, rerr, fanTodo,
     kpc, crashed, written, sends, connCloses, afterClose >>

parseVars == << pMethod, pClient, pServer >>

serverVars == << serviceMap, regs, regErr, spc, sreq, sret, sreqs, sout, invoked >>

vars == << clientVars, hist, parseVars, serverVars >>

\* --------------------------------------------------------------- values
Free == <<"free", 0>>
RecvProc == <<"recv", 0>>
DoProc(c) == <<"do", c>>
CloseProc(k) == <<"close", k>>

ErrClientClosed == "client has closed"
ErrWrite == "write error"
ErrDecode == "decode error"
ErrApp == "application error"

ErrTimeout == "rpc call timeout"
ErrInvalidMethod == "invalid method"

NoResp == [Id |-> 0, Result |-> "", Error |-> "", src |-> "none"]
\* A Response decoded from the connection (src "conn") or one the client made
\* up (src "local").
FromConn(r) == [Id |-> r.Id, Result |-> r.Result, Error |-> r.Error, src |-> "conn"]
ConnResp(i, e) ==
  FromConn([Id |-> i, Result |-> IF e = "" THEN "output" ELSE "", Error |-> e])
LocalResp(e) == [Id |-> 0, Result |-> "", Error |-> e, src |-> "local"]

\* What a caller returned: err is the error returned ("nil": none) and out what
\* became of the caller's output destination.
NoRet == [kind |-> "none", resp |-> NoResp, err |-> "none", out |-> "untouched"]
RetInvalid ==
  [kind |-> "invalid", resp |-> NoResp, err |-> ErrInvalidMethod, out |-> "untouched"]
RetTimeout ==
  [kind |-> "timeout", resp |-> NoResp, err |-> ErrTimeout, out |-> "untouched"]

\* A caller that unmarshals the result whatever the Response's error is.
RetRespIgnoresError(r) ==
  [kind |-> "resp", resp |-> r, err |-> IF r.Error # "" THEN r.Error ELSE "nil",
   out |-> r.Result]

\* Call 106-120 and CallWithTimeout 136-148 on the Response received: a
\* non-empty error is returned as it is and out is left alone; otherwise
\* resp.Result is unmarshalled into out.
RetResp(r) ==
  [kind |-> "resp", resp |-> r, err |-> IF r.Error # "" THEN r.Error ELSE "nil",
   out |-> IF r.Error # "" THEN "untouched" ELSE r.Result]

MapPut(f, k, v) == [x \in (DOMAIN f) \cup {k} |-> IF x = k THEN v ELSE f[x]]
MapDel(f, k) == [x \in (DOMAIN f) \ {k} |-> f[x]]
EmptyMap == [x \in {} |-> 0]

\* A send on a channel of capacity 1 proceeds iff the buffer is empty.
CanSend(c) == done[c] = <<>>

\* The client as Dial returns it (n = 0), or with n earlier calls made and
\* completed.
ClientInitAt(n) ==
  /\ calls = EmptyMap
  /\ closing = FALSE
  /\ shutdown = FALSE
  /\ seqId = n % IdSpace
  /\ reqMutex = Free
  /\ m = Free
  /\ conn = "open"
  /\ wire = {}
  /\ inbound = {}
  /\ api = [c \in Calls |-> "none"]
  /\ method = [c \in Calls |-> <<>>]
  /\ cpc = [c \in Calls |-> "idle"]
  /\ ret = [c \in Calls |-> NoRet]
  /\ callId = [c \in Calls |-> 0]
  /\ done = [c \in Calls |-> <<>>]
  /\ dpc = [c \in Calls |-> "none"]
  /\ rpc = "r50"
  /\ resp = NoResp
  /\ rcall = 0
  /\ rerr = ""
  /\ fanTodo = {}
  /\ kpc = [k \in Closers |-> "idle"]
  /\ crashed = FALSE
  /\ written = {}
  /\ sends = [c \in Calls |-> <<>>]
  /\ connCloses = 0
  /\ afterClose = [c \in Calls |-> FALSE]

ClientInit == ClientInitAt(0)

\* What no step of the client touches.
ClientFrame == UNCHANGED << hist, parseVars, serverVars >>

\* ------------------------------------------------------------ the callers
SendOn(c, r) ==
  /\ done' = [done EXCEPT ![c] = Append(@, r)]
  /\ sends' = [sends EXCEPT ![c] = Append(@, r)]

\* A parseCall that takes the id before it validates the method.
StartCallCountsInvalid(c, a, meth) ==
  /\ ~crashed
  /\ cpc[c] = "idle"
  /\ \A b \in Calls : b < c => cpc[b] # "idle"
  /\ api' = [api EXCEPT ![c] = a]
  /\ method' = [method EXCEPT ![c] = meth]
  /\ afterClose' = [afterClose EXCEPT ![c] = hist /\ \E k \in Closers : kpc[k] = "done"]
  /\ seqId' = (seqId + 1) % IdSpace
  /\ IF parseCallAccepts(meth)
       THEN /\ callId' = [callId EXCEPT ![c] = (seqId + 1) % IdSpace]
            /\ cpc' = [cpc EXCEPT ![c] = "wait"]
            /\ dpc' = [dpc EXCEPT ![c] = "d155"]
            /\ ret' = ret
       ELSE /\ ret' = [ret EXCEPT ![c] = RetInvalid]
            /\ cpc' = [cpc EXCEPT ![c] = "done"]
            /\ UNCHANGED << callId, dpc >>
  /\ UNCHANGED << calls, closing, shutdown, reqMutex, m, conn, wire, inbound,
                  done, rpc, resp, rcall, rerr, fanTodo, kpc, crashed,
                  written, sends, connCloses >>
  /\ ClientFrame

\* Client.parseCall (79-94) and `go c.do(newCall)`: the start of Call (96-102)
\* and of CallWithTimeout (123-129).  Invocations are numbered in the order
\* they start.
StartCall(c, a, meth) ==
  /\ ~crashed
  /\ cpc[c] = "idle"
  /\ \A b \in Calls : b < c => cpc[b] # "idle"
  /\ api' = [api EXCEPT ![c] = a]
  /\ method' = [method EXCEPT ![c] = meth]
  /\ afterClose' = [afterClose EXCEPT ![c] = hist /\ \E k \in Closers : kpc[k] = "done"]
  /\ IF parseCallAccepts(meth)
       THEN /\ seqId' = (seqId + 1) % IdSpace
            /\ callId' = [callId EXCEPT ![c] = (seqId + 1) % IdSpace]
            /\ cpc' = [cpc EXCEPT ![c] = "wait"]
            /\ dpc' = [dpc EXCEPT ![c] = "d155"]
            /\ ret' = ret
       ELSE /\ ret' = [ret EXCEPT ![c] = RetInvalid]
            /\ cpc' = [cpc EXCEPT ![c] = "done"]
            /\ UNCHANGED << seqId, callId, dpc >>
  /\ UNCHANGED << calls, closing, shutdown, reqMutex, m, conn, wire, inbound,
                  done, rpc, resp, rcall, rerr, fanTodo, kpc, crashed,
                  written, sends, connCloses >>
  /\ ClientFrame

\* `resp := <-newCall.done` (104, 135) and the return that follows.
Receive(c) ==
  /\ ~crashed
  /\ cpc[c] = "wait"
  /\ done[c] # <<>>
  /\ ret' = [ret EXCEPT ![c] = RetResp(Head(done[c]))]
  /\ done' = [done EXCEPT ![c] = Tail(@)]
  /\ cpc' = [cpc EXCEPT ![c] = "done"]
  /\ UNCHANGED << calls, closing, shutdown, seqId, reqMutex, m, conn, wire,
                  inbound, api, method, callId, dpc, rpc, resp, rcall, rerr,
                  fanTodo, kpc, crashed, written, sends, connCloses,
                  afterClose >>
  /\ ClientFrame

\* A timeout that also evicts the call from the map.
TimeoutEvicts(c) ==
  /\ ~crashed
  /\ cpc[c] = "wait"
  /\ api[c] = "CallWithTimeout"
  /\ ret' = [ret EXCEPT ![c] = RetTimeout]
  /\ cpc' = [cpc EXCEPT ![c] = "done"]
  /\ calls' = [x \in (DOMAIN calls) \ {callId[c]} |-> calls[x]]
  /\ UNCHANGED << closing, shutdown, seqId, reqMutex, m, conn, wire,
                  inbound, api, method, callId, done, dpc, rpc, resp, rcall,
                  rerr, fanTodo, kpc, crashed, written, sends, connCloses,
                  afterClose >>
  /\ ClientFrame

\* `case <-time.After(timeout)` (132-134): the call is left as it is.
Timeout(c) ==
  /\ ~crashed
  /\ cpc[c] = "wait"
  /\ api[c] = "CallWithTimeout"
  /\ ret' = [ret EXCEPT ![c] = RetTimeout]
  /\ cpc' = [cpc EXCEPT ![c] = "done"]
  /\ UNCHANGED << calls, closing, shutdown, seqId, reqMutex, m, conn, wire,
                  inbound, api, method, callId, done, dpc, rpc, resp, rcall,
                  rerr, fanTodo, kpc, crashed, written, sends, connCloses,
                  afterClose >>
  /\ ClientFrame

\* ------------------------------------------------------------- Client.do
\* 155-158, 163 is next when neither flag is set (the lock stays held).
Do155(c) ==
  /\ ~crashed
  /\ dpc[c] = "d155"
  /\ m = Free
  /\ IF closing \/ shutdown
       THEN /\ dpc' = [dpc EXCEPT ![c] = "d159"]
            /\ m' = m
       ELSE /\ dpc' = [dpc EXCEPT ![c] = "d163"]
            /\ m' = DoProc(c)
  /\ UNCHANGED << calls, closing, shutdown, seqId, reqMutex, conn, wire,
                  inbound, api, method, cpc, ret, callId, done, rpc, resp,
                  rcall, rerr, fanTodo, kpc, crashed, written, sends,
                  connCloses, afterClose >>
  /\ ClientFrame

\* 159: call.done <- &Response{Error: ErrClientClosed.Error()}
Do159(c) ==
  /\ ~crashed
  /\ dpc[c] = "d159"
  /\ CanSend(c)
  /\ SendOn(c, LocalResp(ErrClientClosed))
  /\ dpc' = [dpc EXCEPT ![c] = "end"]
  /\ UNCHANGED << calls, closing, shutdown, seqId, reqMutex, m, conn, wire,
                  inbound, api, method, cpc, ret, callId, rpc, resp, rcall,
                  rerr, fanTodo, kpc, crashed, written, connCloses,
                  afterClose >>
  /\ ClientFrame

\* A Client.do that keeps the map lock until it returns.
Do163KeepsLock(c) ==
  /\ ~crashed
  /\ dpc[c] = "d163"
  /\ calls' = MapPut(calls, callId[c], c)
  /\ m' = m
  /\ dpc' = [dpc EXCEPT ![c] = "d179"]
  /\ UNCHANGED << closing, shutdown, seqId, reqMutex, conn, wire, inbound,
                  api, method, cpc, ret, callId, done, rpc, resp, rcall, rerr,
                  fanTodo, kpc, crashed, written, sends, connCloses,
                  afterClose >>
  /\ ClientFrame

\* 163-164: c.calls[call.id] = call; c.m.Unlock()
Do163(c) ==
  /\ ~crashed
  /\ dpc[c] = "d163"
  /\ calls' = MapPut(calls, callId[c], c)
  /\ m' = Free
  /\ dpc' = [dpc EXCEPT ![c] = "d179"]
  /\ UNCHANGED << closing, shutdown, seqId, reqMutex, conn, wire, inbound,
                  api, method, cpc, ret, callId, done, rpc, resp, rcall, rerr,
                  fanTodo, kpc, crashed, written, sends, connCloses,
                  afterClose >>
  /\ ClientFrame

\* Client.send 179: c.reqMutex.Lock()
Do179(c) ==
  /\ ~crashed
  /\ dpc[c] = "d179"
  /\ reqMutex = Free
  /\ reqMutex' = DoProc(c)
  /\ dpc' = [dpc EXCEPT ![c] = "d187"]
  /\ UNCHANGED << calls, closing, shutdown, seqId, m, conn, wire, inbound,
                  api, method, cpc, ret, callId, done, rpc, resp, rcall, rerr,
                  fanTodo, kpc, crashed, written, sends, connCloses,
                  afterClose >>
  /\ ClientFrame

\* Client.send 187-189 and Client.do 167, 175: Encode, unlock, and the branch
\* on its error.  A write on an open socket reaches the peer; on a broken one
\* it is either accepted and lost or fails; on a closed one it fails.
Do187(c) ==
  /\ ~crashed
  /\ dpc[c] = "d187"
  /\ reqMutex' = Free
  /\ \/ /\ conn = "open"
        /\ wire' = wire \cup {callId[c]}
        /\ written' = written \cup {callId[c]}
        /\ dpc' = [dpc EXCEPT ![c] = "end"]
     \/ /\ conn = "broken"
        /\ written' = written \cup {callId[c]}
        /\ dpc' = [dpc EXCEPT ![c] = "end"]
        /\ wire' = wire
     \/ /\ conn \in {"broken", "closed"}
        /\ dpc' = [dpc EXCEPT ![c] = "d168"]
        /\ UNCHANGED << wire, written >>
  /\ UNCHANGED << calls, closing, shutdown, seqId, m, conn, inbound, api,
                  method, cpc, ret, callId, done, rpc, resp, rcall, rerr,
                  fanTodo, kpc, crashed, sends, connCloses, afterClose >>
  /\ ClientFrame

\* 168: c.m.Lock()
Do168(c) ==
  /\ ~crashed
  /\ dpc[c] = "d168"
  /\ m = Free
  /\ m' = DoProc(c)
  /\ dpc' = [dpc EXCEPT ![c] = "d169"]
  /\ UNCHANGED << calls, closing, shutdown, seqId, reqMutex, conn, wire,
                  inbound, api, method, cpc, ret, callId, done, rpc, resp,
                  rcall, rerr, fanTodo, kpc, crashed, written, sends,
                  connCloses, afterClose >>
  /\ ClientFrame

\* 169-170: delete(c.calls, call.id); c.m.Unlock()
Do169(c) ==
  /\ ~crashed
  /\ dpc[c] = "d169"
  /\ calls' = MapDel(calls, callId[c])
  /\ m' = Free
  /\ dpc' = [dpc EXCEPT ![c] = "d171"]
  /\ UNCHANGED << closing, shutdown, seqId, reqMutex, conn, wire, inbound,
                  api, method, cpc, ret, callId, done, rpc, resp, rcall, rerr,
                  fanTodo, kpc, crashed, written, sends, connCloses,
                  afterClose >>
  /\ ClientFrame

\* 171: call.done <- &Response{Error: err.Error()}
Do171(c) ==
  /\ ~crashed
  /\ dpc[c] = "d171"
  /\ CanSend(c)
  /\ SendOn(c, LocalResp(ErrWrite))
  /\ dpc' = [dpc EXCEPT ![c] = "end"]
  /\ UNCHANGED << calls, closing, shutdown, seqId, reqMutex, m, conn, wire,
                  inbound, api, method, cpc, ret, callId, rpc, resp, rcall,
                  rerr, fanTodo, kpc, crashed, written, connCloses,
                  afterClose >>
  /\ ClientFrame

Do(c) ==
  \/ Do155(c) \/ Do159(c) \/ Do163(c) \/ Do179(c)
  \/ Do187(c) \/ Do168(c) \/ Do169(c) \/ Do171(c)

\* ------------------------------------------------------------ Client.recv
\* 55: call, ok := c.calls[resp.Id]; 0 stands for !ok.
LookupAnyCall(i) ==
  IF DOMAIN calls = {} THEN 0 ELSE calls[CHOOSE x \in DOMAIN calls : TRUE]

Lookup(i) == IF i \in DOMAIN calls THEN calls[i] ELSE 0

\* 50-53: Decode returns the next Response, or fails once the socket is no
\* longer open (Responses still in flight may or may not be read before).
Recv50 ==
  /\ ~crashed
  /\ rpc = "r50"
  /\ \/ /\ \E r \in inbound :
             /\ resp' = r
             /\ inbound' = inbound \ {r}
        /\ rpc' = "r55"
        /\ rerr' = rerr
     \/ /\ conn # "open"
        /\ rerr' = ErrDecode
        /\ rpc' = "r67"
        /\ UNCHANGED << resp, inbound >>
  /\ UNCHANGED << calls, closing, shutdown, seqId, reqMutex, m, conn, wire,
                  api, method, cpc, ret, callId, done, dpc, rcall, fanTodo,
                  kpc, crashed, written, sends, connCloses, afterClose >>
  /\ ClientFrame

\* A goroutine is about to write the map (163, 169).
MapWriter == \E c \in Calls : dpc[c] \in {"d163", "d169"}

\* 55-58: the lookup, made without c.m.  When it runs together with a write
\* of the map the runtime may end the process ("concurrent map read and map
\* write").
Recv55 ==
  /\ ~crashed
  /\ rpc = "r55"
  /\ \/ /\ Lookup(resp.Id) # 0
        /\ rcall' = Lookup(resp.Id)
        /\ rpc' = "r60"
        /\ UNCHANGED << resp, crashed >>
     \/ /\ Lookup(resp.Id) = 0
        /\ rpc' = "r50"
        /\ resp' = NoResp
        /\ UNCHANGED << rcall, crashed >>
     \/ /\ MapWriter
        /\ crashed' = TRUE
        /\ UNCHANGED << rpc, resp, rcall >>
  /\ UNCHANGED << calls, closing, shutdown, seqId, reqMutex, m, conn, wire,
                  inbound, api, method, cpc, ret, callId, done, dpc, rerr,
                  fanTodo, kpc, written, sends, connCloses, afterClose >>
  /\ ClientFrame

\* 60: call.done <- resp
Recv60 ==
  /\ ~crashed
  /\ rpc = "r60"
  /\ CanSend(rcall)
  /\ SendOn(rcall, resp)
  /\ rpc' = "r62"
  /\ UNCHANGED << calls, closing, shutdown, seqId, reqMutex, m, conn, wire,
                  inbound, api, method, cpc, ret, callId, dpc, resp, rcall,
                  rerr, fanTodo, kpc, crashed, written, connCloses,
                  afterClose >>
  /\ ClientFrame

\* 62: c.m.Lock()
Recv62 ==
  /\ ~crashed
  /\ rpc = "r62"
  /\ m = Free
  /\ m' = RecvProc
  /\ rpc' = "r63"
  /\ UNCHANGED << calls, closing, shutdown, seqId, reqMutex, conn, wire,
                  inbound, api, method, cpc, ret, callId, done, dpc, resp,
                  rcall, rerr, fanTodo, kpc, crashed, written, sends,
                  connCloses, afterClose >>
  /\ ClientFrame

\* 63-64: delete(c.calls, resp.Id); c.m.Unlock(); the next iteration
Recv63 ==
  /\ ~crashed
  /\ rpc = "r63"
  /\ calls' = MapDel(calls, resp.Id)
  /\ m' = Free
  /\ rpc' = "r50"
  /\ resp' = NoResp
  /\ rcall' = 0
  /\ UNCHANGED << closing, shutdown, seqId, reqMutex, conn, wire, inbound,
                  api, method, cpc, ret, callId, done, dpc, rerr, fanTodo,
                  kpc, crashed, written, sends, connCloses, afterClose >>
  /\ ClientFrame

\* 67: c.reqMutex.Lock()
Recv67 ==
  /\ ~crashed
  /\ rpc = "r67"
  /\ reqMutex = Free
  /\ reqMutex' = RecvProc
  /\ rpc' = "r68"
  /\ UNCHANGED << calls, closing, shutdown, seqId, m, conn, wire, inbound,
                  api, method, cpc, ret, callId, done, dpc, resp, rcall, rerr,
                  fanTodo, kpc, crashed, written, sends, connCloses,
                  afterClose >>
  /\ ClientFrame

\* 68-70: c.m.Lock(); c.shutdown = true; the range over c.calls begins
RangeNothing == {}

RangeCalls == {calls[i] : i \in DOMAIN calls}

Recv68 ==
  /\ ~crashed
  /\ rpc = "r68"
  /\ m = Free
  /\ m' = RecvProc
  /\ shutdown' = TRUE
  /\ fanTodo' = RangeCalls
  /\ rpc' = "r70"
  /\ UNCHANGED << calls, closing, seqId, reqMutex, conn, wire, inbound, api,
                  method, cpc, ret, callId, done, dpc, resp, rcall, rerr, kpc,
                  crashed, written, sends, connCloses, afterClose >>
  /\ ClientFrame

\* 70-74: one iteration of the range, call.done <- &Response{Error: err.Error()},
\* or its end and the two unlocks.  c.calls is left as it is.
Recv70 ==
  /\ ~crashed
  /\ rpc = "r70"
  /\ \/ /\ \E c \in fanTodo :
             /\ CanSend(c)
             /\ SendOn(c, LocalResp(rerr))
             /\ fanTodo' = fanTodo \ {c}
        /\ UNCHANGED << m, reqMutex, rpc >>
     \/ /\ fanTodo = {}
        /\ m' = Free
        /\ reqMutex' = Free
        /\ rpc' = "exit"
        /\ UNCHANGED << done, sends, fanTodo >>
  /\ UNCHANGED << calls, closing, shutdown, seqId, conn, wire, inbound, api,
                  method, cpc, ret, callId, dpc, resp, rcall, rerr, kpc,
                  crashed, written, connCloses, afterClose >>
  /\ ClientFrame

Recv == Recv50 \/ Recv55 \/ Recv60 \/ Recv62 \/ Recv63 \/ Recv67 \/ Recv68 \/ Recv70

\* ----------------------------------------------------------- Client.Close
\* 194-198: the lock and the test of the flags; 200 is next when neither is set.
Close194(k) ==
  /\ ~crashed
  /\ kpc[k] = "idle"
  /\ \A j \in Closers : j < k => kpc[j] # "idle"
  /\ m = Free
  /\ IF shutdown \/ closing
       THEN /\ kpc' = [kpc EXCEPT ![k] = "done"]
            /\ m' = m
       ELSE /\ kpc' = [kpc EXCEPT ![k] = "k200"]
            /\ m' = CloseProc(k)
  /\ UNCHANGED << calls, closing, shutdown, seqId, reqMutex, conn, wire,
                  inbound, api, method, cpc, ret, callId, done, dpc, rpc,
                  resp, rcall, rerr, fanTodo, crashed, written, sends,
                  connCloses, afterClose >>
  /\ ClientFrame

\* 200-202: _ = c.conn.Close(); c.m.Unlock().  closing is not assigned.
Close200(k) ==
  /\ ~crashed
  /\ kpc[k] = "k200"
  /\ conn' = "closed"
  /\ connCloses' = IF hist THEN connCloses + 1 ELSE connCloses
  /\ m' = Free
  /\ kpc' = [kpc EXCEPT ![k] = "done"]
  /\ UNCHANGED << calls, closing, shutdown, seqId, reqMutex, wire, inbound,
                  api, method, cpc, ret, callId, done, dpc, rpc, resp, rcall,
                  rerr, fanTodo, crashed, written, sends, afterClose >>
  /\ ClientFrame

Close(k) == Close194(k) \/ Close200(k)

\* ------------------------------------------------------ the peer, the network
\* The peer answers a Request it received, in any order, with success or with
\* an error of the method.
PeerReply(i, e) ==
  /\ ~crashed
  /\ conn = "open"
  /\ i \in wire
  /\ wire' = wire \ {i}
  /\ inbound' = inbound \cup {ConnResp(i, e)}
  /\ UNCHANGED << calls, closing, shutdown, seqId, reqMutex, m, conn, api,
                  method, cpc, ret, callId, done, dpc, rpc, resp, rcall, rerr,
                  fanTodo, kpc, crashed, written, sends, connCloses,
                  afterClose >>
  /\ ClientFrame

\* The peer goes away or the transport fails.
Break ==
  /\ ~crashed
  /\ conn = "open"
  /\ conn' = "broken"
  /\ UNCHANGED << calls, closing, shutdown, seqId, reqMutex, m, wire, inbound,
                  api, method, cpc, ret, callId, done, dpc, rpc, resp, rcall,
                  rerr, fanTodo, kpc, crashed, written, sends, connCloses,
                  afterClose >>
  /\ ClientFrame

\* ------------------------------------------------- the validation functions
\* Every string over Alphabet of at most n characters.
RECURSIVE StringsUpTo(_)
StringsUpTo(n) ==
  IF n = 0 THEN {<<>>}
  ELSE LET shorter == StringsUpTo(n - 1)
       IN shorter \cup {Append(t, ch) : t \in {u \in shorter : Len(u) = n - 1}, ch \in Alphabet}

ParseIdle ==
  /\ pMethod = <<>>
  /\ pClient = "unset"
  /\ pServer = "unset"

\* Client.parseCall 80-84 on pMethod.
ParseClient ==
  /\ pClient = "unset"
  /\ pClient' = IF parseCallAccepts(pMethod) THEN "accept" ELSE "invalid method"
  /\ UNCHANGED << pMethod, pServer, clientVars, hist, serverVars >>

\* Request.Regular 56-71 on pMethod.
ParseServer ==
  /\ pServer = "unset"
  /\ pServer' = Regular(pMethod)
  /\ UNCHANGED << pMethod, pClient, clientVars, hist, serverVars >>

\* ------------------------------------------------------------ the registry
NoExportedMethod == "no exported method"
ErrServiceName == "invalid service name"

\* A method of a candidate receiver as reflection shows it (198-232), and what
\* it does when invoked.
Meth(name, pkgPath, numIn, outPtr, numOut, outErr, behaviour) ==
  [Name |-> name, PkgPath |-> pkgPath, NumIn |-> numIn, InExported |-> TRUE,
   OutPtr |-> outPtr, OutExported |-> TRUE, NumOut |-> numOut,
   OutIsError |-> outErr, behaviour |-> behaviour]

GoodMeth(name, behaviour) == Meth(name, "", 3, TRUE, 1, TRUE, behaviour)

\* The receivers handed to Register: a service "a" with a method that
\* succeeds, one that returns an error and one of the wrong arity; a second
\* "a" with another method set; an "a" and a "b" with no qualifying method;
\* a receiver of an unnamed type with a method it got by embedding; and one of
\* an unnamed type with no method, such as struct{}{}.
Candidates ==
  { [name |-> <<"a">>, recv |-> 1,
     methods |-> {GoodMeth(<<"a">>, "ok"), GoodMeth(<<"b">>, "fail"),
                  Meth(<<"c">>, "", 2, TRUE, 1, TRUE, "ok")}],
    [name |-> <<"a">>, recv |-> 2,
     methods |-> {GoodMeth(<<"b">>, "ok")}],
    [name |-> <<"a">>, recv |-> 3,
     methods |-> {Meth(<<"a">>, "", 3, FALSE, 1, TRUE, "ok"),
                  Meth(<<"b">>, "pkg", 3, TRUE, 1, TRUE, "ok")}],
    [name |-> <<"b">>, recv |-> 4,
     methods |-> {Meth(<<"a">>, "", 3, TRUE, 2, TRUE, "ok"),
                  Meth(<<"b">>, "", 3, TRUE, 1, FALSE, "ok")}],
    [name |-> <<>>, recv |-> 5,
     methods |-> {GoodMeth(<<"a">>, "ok")}],
    [name |-> <<>>, recv |-> 6, methods |-> {}] }

\* 203-232: the tests a method passes to enter the methodMap.
Qualifies(md) ==
  /\ md.PkgPath = ""
  /\ md.NumIn = 3
  /\ md.InExported
  /\ md.OutPtr
  /\ md.OutExported
  /\ md.NumOut = 1
  /\ md.OutIsError

\* 192-239: the methodMap built for a receiver.
MethodMapOf(cand) ==
  LET ok == {md \in cand.methods : Qualifies(md)}
  IN [n \in {md.Name : md \in ok} |-> CHOOSE md \in ok : md.Name = n]

\* A Register that installs the service before it counts the methods.
RegisterInstallsFirst(cand) ==
  /\ spc = "off"
  /\ regs < MaxRegs
  /\ regs' = regs + 1
  /\ IF cand.name = <<>>
       THEN /\ regErr' = ErrServiceName
            /\ serviceMap' = serviceMap
       ELSE /\ regErr' = IF DOMAIN MethodMapOf(cand) = {} THEN NoExportedMethod ELSE "nil"
            /\ serviceMap' =
                 MapPut(serviceMap, cand.name,
                        [receiver |-> cand.recv, methodMap |-> MethodMapOf(cand)])
  /\ UNCHANGED << spc, sreq, sret, sreqs, sout, invoked, clientVars, hist, parseVars >>

\* Server.Register 183-252.  Services are registered before the server serves.
Register(cand) ==
  /\ spc = "off"
  /\ regs < MaxRegs
  /\ regs' = regs + 1
  /\ IF cand.name = <<>>
       THEN /\ regErr' = ErrServiceName
            /\ serviceMap' = serviceMap
       ELSE IF DOMAIN MethodMapOf(cand) = {}
       THEN /\ regErr' = NoExportedMethod
            /\ serviceMap' = serviceMap
       ELSE /\ regErr' = "nil"
            /\ serviceMap' =
                 MapPut(serviceMap, cand.name,
                        [receiver |-> cand.recv, methodMap |-> MethodMapOf(cand)])
  /\ UNCHANGED << spc, sreq, sret, sreqs, sout, invoked, clientVars, hist, parseVars >>

\* Server.getService 254-262 and service.getMethod 145-153: found or not.
getService(name) == name \in DOMAIN serviceMap

getMethod(svc, name) == name \in DOMAIN serviceMap[svc].methodMap

\* ------------------------------------------------------------- the session
NoReq == [Id |-> 0, Method |-> <<>>, Param |-> "none"]
NoSret == [err |-> "none", out |-> "none"]

\* The Requests a peer sends.
ServerMethods ==
  { <<"a", Dot, "a">>, <<"a", Dot, "b">>, <<"a", Dot, "c">>,
    <<"b", Dot, "a">>, <<"a", "a">>, <<"a", Dot>> }

Requests ==
  [Id : 1 .. MaxReqs, Method : ServerMethods, Param : {"good", "bad"}]

\* Connection.replyError 289-297 and replyResult 299-309: the Response encoded.
replyError(id, err) == [Id |-> id, Result |-> "", Error |-> err]

replyResult(id, result) == [Id |-> id, Result |-> result, Error |-> ""]

ServerFrame == UNCHANGED << clientVars, hist, parseVars >>

\* Server.Serve 326-337: a connection is accepted and its session started.
Accept ==
  /\ spc = "off"
  /\ spc' = "s90"
  /\ UNCHANGED << serviceMap, regs, regErr, sreq, sret, sreqs, sout, invoked >>
  /\ ServerFrame

\* Connection.Serve 88-95 and the deferred conn.c.Close() (86): the next
\* Request is decoded, or Decode fails and the session ends.
Decode90(r) ==
  /\ spc = "s90"
  /\ sreq' = r
  /\ sreqs' = Append(sreqs, r)
  /\ spc' = "s100"
  /\ UNCHANGED << serviceMap, regs, regErr, sret, sout, invoked >>

DecodeFails90 ==
  /\ spc = "s90"
  /\ spc' = "closed"
  /\ UNCHANGED << serviceMap, regs, regErr, sreq, sret, sreqs, sout, invoked >>

Serve90 ==
  /\ \/ /\ Len(sreqs) < MaxReqs
        /\ \E r \in Requests : Decode90(r)
     \/ DecodeFails90
  /\ ServerFrame

\* A session that gives up on a Request it cannot dispatch.
Do100EndsSession ==
  /\ spc = "s100"
  /\ LET parts == Split(sreq.Method)
     IN IF Regular(sreq.Method) # "ok" \/ ~getService(parts[1])
             \/ ~getMethod(parts[1], parts[2])
          THEN /\ sout' = Append(sout, replyError(sreq.Id, "error"))
               /\ spc' = "closed"
          ELSE /\ spc' = "s122"
               /\ sout' = sout
  /\ UNCHANGED << serviceMap, regs, regErr, sreq, sret, sreqs, invoked >>
  /\ ServerFrame

\* Connection.do 100-116: validation and the two lookups; each failure is
\* answered with replyError and the loop goes on.
Do100Step ==
  /\ spc = "s100"
  /\ LET parts == Split(sreq.Method)
     IN IF Regular(sreq.Method) # "ok"
          THEN /\ sout' = Append(sout, replyError(sreq.Id, Regular(sreq.Method)))
               /\ spc' = "s90"
          ELSE IF ~getService(parts[1])
          THEN /\ sout' = Append(sout, replyError(sreq.Id, "serviceName not exists"))
               /\ spc' = "s90"
          ELSE IF ~getMethod(parts[1], parts[2])
          THEN /\ sout' = Append(sout, replyError(sreq.Id, "methodName not exists"))
               /\ spc' = "s90"
          ELSE /\ spc' = "s122"
               /\ sout' = sout
  /\ UNCHANGED << serviceMap, regs, regErr, sreq, sret, sreqs, invoked >>

Do100 == Do100Step /\ ServerFrame

\* Connection.do 118-128: the parameter is unmarshalled (the error is
\* assigned and not looked at), the output allocated and the method called.
Do122Step ==
  /\ spc = "s122"
  /\ LET parts == Split(sreq.Method)
         svc == serviceMap[parts[1]]
         md == svc.methodMap[parts[2]]
         in == IF sreq.Param = "good" THEN "decoded" ELSE "zero"
     IN /\ invoked' = Append(invoked, [req |-> Len(sreqs), recv |-> svc.receiver,
                                      method |-> parts[2], in |-> in])
        /\ sret' = IF md.behaviour = "ok"
                     THEN [err |-> "nil", out |-> "output"]
                     ELSE [err |-> ErrApp, out |-> "unset"]
  /\ spc' = "s128"
  /\ UNCHANGED << serviceMap, regs, regErr, sreq, sreqs, sout >>

Do122 == Do122Step /\ ServerFrame

\* A session that answers only the calls that succeed.
Do128StepSilentOnError ==
  /\ spc = "s128"
  /\ sout' = IF sret.err # "nil" THEN sout ELSE Append(sout, replyResult(sreq.Id, sret.out))
  /\ spc' = "s90"
  /\ sret' = NoSret
  /\ UNCHANGED << serviceMap, regs, regErr, sreq, sreqs, invoked >>

\* Connection.do 128-136: the error or the output is answered.
Do128Step ==
  /\ spc = "s128"
  /\ sout' = Append(sout, IF sret.err # "nil"
                            THEN replyError(sreq.Id, sret.err)
                            ELSE replyResult(sreq.Id, sret.out))
  /\ spc' = "s90"
  /\ sret' = NoSret
  /\ UNCHANGED << serviceMap, regs, regErr, sreq, sreqs, invoked >>

Do128 == Do128Step /\ ServerFrame

\* ---------------------------------------------------------- the behaviours
ServerInit ==
  /\ serviceMap = EmptyMap
  /\ regs = 0
  /\ regErr = "none"
  /\ spc = "off"
  /\ sreq = NoReq
  /\ sret = NoSret
  /\ sreqs = <<>>
  /\ sout = <<>>
  /\ invoked = <<>>

\* The client, with its peer and network.
Init == ClientInit /\ hist = FALSE /\ ParseIdle /\ ServerInit

ClientNext ==
  \/ \E c \in Calls, a \in {"Call", "CallWithTimeout"}, meth \in ClientMethods :
       StartCall(c, a, meth)
  \/ \E c \in Calls : Receive(c)
  \/ \E c \in Calls : Timeout(c)
  \/ \E c \in Calls : Do(c)
  \/ Recv
  \/ \E k \in Closers : Close(k)
  \/ \E i \in wire, e \in PeerErrors : PeerReply(i, e)
  \/ Break

Next == ClientNext

Spec == Init /\ [][Next]_vars

\* The same client with the history of Close recorded.
InitHist == ClientInit /\ hist = TRUE /\ ParseIdle /\ ServerInit

SpecHist == InitHist /\ [][Next]_vars

\* The client after CallsBefore valid calls were made and completed: the
\* counter is one short of its wrap.
CallsBefore == IdSpace - 1

InitIds == ClientInitAt(CallsBefore) /\ hist = FALSE /\ ParseIdle /\ ServerInit

SpecIds == InitIds /\ [][Next]_vars

\* A step of a goroutine of the client: the receive loop, a Client.do, a
\* caller's receive or timer, a Close past its lock.
GoroutineStep ==
  \/ Recv
  \/ \E c \in Calls : Do(c) \/ Receive(c) \/ Timeout(c)
  \/ \E k \in Closers : Close200(k)

\* While some goroutine can take a step, one of them eventually does: a
\* blocked receive or send proceeds once it can, a timer fires, and a read of
\* a dead socket returns.  The scheduler promises more (each runnable
\* goroutine runs); nothing obliges the program to start a call or a Close.
FairSpec == Spec /\ WF_vars(GoroutineStep)

\* The two validation functions on every method string of bounded length.
InitParse ==
  /\ ClientInit /\ hist = FALSE /\ ServerInit
  /\ pMethod \in StringsUpTo(MaxMethodLen)
  /\ pClient = "unset"
  /\ pServer = "unset"

NextParse == ParseClient \/ ParseServer

SpecParse == InitParse /\ [][NextParse]_vars

\* The server: registrations, then one session.
InitServer == ClientInit /\ hist = FALSE /\ ParseIdle /\ ServerInit

NextServer ==
  \/ \E cand \in Candidates : Register(cand)
  \/ Accept
  \/ Serve90
  \/ Do100
  \/ Do122
  \/ Do128

SpecServer == InitServer /\ [][NextServer]_vars

\* ------------------------------------- the client and a session of the server
\* The Request the call with id i wrote (its input marshals to a payload the
\* method's input type accepts).
RequestOf(i) ==
  LET c == CHOOSE d \in Calls : cpc[d] # "idle" /\ callId[d] = i
  IN [Id |-> i, Method |-> method[c], Param |-> "good"]

\* Connection.Serve 88-95 on the client's connection: the session decodes a
\* Request the client wrote, or Decode fails once the connection is gone.
ServeConn ==
  /\ \/ /\ \E i \in wire :
             /\ Decode90(RequestOf(i))
             /\ wire' = wire \ {i}
     \/ /\ conn # "open"
        /\ DecodeFails90
        /\ wire' = wire
  /\ UNCHANGED << calls, closing, shutdown, seqId, reqMutex, m, conn, inbound,
                  api, method, cpc, ret, callId, done, dpc, rpc, resp, rcall,
                  rerr, fanTodo, kpc, crashed, written, sends, connCloses,
                  afterClose >>
  /\ UNCHANGED << hist, parseVars >>

\* replyError 295 and replyResult 307: the Response just handed to the encoder
\* reaches the client if the connection is open; Encode's error is dropped.
Encoded ==
  IF Len(sout') > Len(sout) /\ conn = "open"
    THEN {FromConn(sout'[Len(sout')])}
    ELSE {}

ConnFrame ==
  /\ inbound' = inbound \cup Encoded
  /\ UNCHANGED << calls, closing, shutdown, seqId, reqMutex, m, conn, wire,
                  api, method, cpc, ret, callId, done, dpc, rpc, resp, rcall,
                  rerr, fanTodo, kpc, crashed, written, sends, connCloses,
                  afterClose >>
  /\ UNCHANGED << hist, parseVars >>

Conn100 == Do100Step /\ ConnFrame

Conn122 == Do122Step /\ ConnFrame

Conn128 == Do128Step /\ ConnFrame

\* The client whose peer is a session of the server, with its registrations.
NextConn ==
  \/ \E c \in Calls, a \in {"Call", "CallWithTimeout"}, meth \in ClientMethods :
       StartCall(c, a, meth)
  \/ \E c \in Calls : Receive(c)
  \/ \E c \in Calls : Timeout(c)
  \/ \E c \in Calls : Do(c)
  \/ Recv
  \/ \E k \in Closers : Close(k)
  \/ Break
  \/ \E cand \in Candidates : Register(cand)
  \/ Accept
  \/ ServeConn
  \/ Conn100
  \/ Conn122
  \/ Conn128

SpecConn == Init /\ [][NextConn]_vars

\* ----------------------------------------------------------------- claims
\* The receive loop's Decode has failed.
RecvDead == rpc \in {"r67", "r68", "r70", "exit"}

Registered(c) == callId[c] \in DOMAIN calls /\ calls[callId[c]] = c

\* The Responses the caller of c has seen or may still see.
Delivered(c) ==
  {sends[c][i] : i \in 1 .. Len(sends[c])}

\* One dot, with a non-empty part on each side.
OneDotNonEmpty(s) ==
  /\ Cardinality({i \in 1 .. Len(s) : s[i] = Dot}) = 1
  /\ s[1] # Dot
  /\ s[Len(s)] # Dot

\* C1: under fair scheduling, once the receive loop's Decode has failed every
\* caller blocked in Call (now or later) returns, with an error.
C1_Theorem ==
  \A c \in Calls :
    (RecvDead /\ api[c] = "Call" /\ cpc[c] = "wait" /\ done[c] = <<>>)
      ~> (cpc[c] = "done" /\ ret[c].kind = "resp" /\ ret[c].resp.Error # "")

C1_Witness ==
  \E c \in Calls :
    /\ api[c] = "Call" /\ cpc[c] = "done"
    /\ ret[c].kind = "resp" /\ ret[c].resp.Error = ErrDecode
    /\ rpc = "exit"

\* C2: a Response decoded from the connection is sent only on the channel of
\* the call whose id is the Response's id, and a caller only ever returns
\* with a decoded Response that carries its own id.
C2_Theorem ==
  \A c \in Calls :
    /\ \A r \in Delivered(c) : r.src = "conn" => r.Id = callId[c]
    /\ (ret[c].kind = "resp" /\ ret[c].resp.src = "conn") => ret[c].resp.Id = callId[c]

\* The later call was answered while the earlier one, already written, waits.
C2_Witness ==
  \E c, d \in Calls :
    /\ callId[c] < callId[d]
    /\ callId[c] \in written /\ cpc[c] = "wait" /\ done[c] = <<>>
    /\ ret[d].kind = "resp" /\ ret[d].resp.src = "conn"
    /\ ret[d].resp.Id = callId[d]

\* C3: at most one Response is ever sent on a call's completion channel.
C3_Claim == \A c \in Calls : Len(sends[c]) <= 1

\* C4: a call started after a Close has returned is not registered, writes no
\* Request, and fails with ErrClientClosed.
C4_Claim ==
  \A c \in Calls :
    (afterClose[c] /\ cpc[c] # "idle" /\ ret[c].kind # "invalid") =>
      /\ ~Registered(c)
      /\ callId[c] \notin written
      /\ \A r \in Delivered(c) : r.Error = ErrClientClosed

\* C5: however many times Close is called, conn.Close() runs at most once.
C5_Claim == connCloses <= 1

\* C6: a timeout leaves the map as it is; a Response decoded for a timed-out
\* call finds that call's channel empty, so the receive loop's send does not
\* block, and no other call is ever sent a Response with that id.
C6_Absorbed ==
  \A c \in Calls :
    ret[c].kind = "timeout" =>
      /\ (rpc = "r60" /\ rcall = c) => CanSend(c)
      /\ \A d \in Calls \ {c} : \A r \in Delivered(d) :
           r.src = "conn" => r.Id # callId[c]

C6_StaysRegistered ==
  \A c \in Calls :
    (ret[c].kind # "timeout" /\ ret'[c].kind = "timeout") =>
      (calls' = calls /\ (Registered(c) => Registered(c)'))

C6_Theorem == []C6_Absorbed /\ [][C6_StaysRegistered]_vars

\* The timed-out call's late Response sits in its channel and another call
\* has been started since.
C6_Witness ==
  \E c, d \in Calls :
    /\ ret[c].kind = "timeout"
    /\ done[c] # <<>> /\ Head(done[c]).src = "conn"
    /\ callId[d] > callId[c]

\* C7: when the write of a call's Request has failed and the caller then
\* receives its Response, the Response is the write error and the id is no
\* longer in the map.
WriteFailed(c) ==
  \/ dpc[c] \in {"d168", "d169", "d171"}
  \/ LocalResp(ErrWrite) \in Delivered(c)

C7_ClaimStep ==
  \A c \in Calls :
    (WriteFailed(c) /\ cpc[c] = "wait" /\ cpc'[c] = "done" /\ ret'[c].kind = "resp") =>
      /\ ret'[c].resp.Error = ErrWrite
      /\ callId[c] \notin DOMAIN calls'

C7_Claim == [][C7_ClaimStep]_vars

\* C8: a call whose method is not two non-empty parts returns the invalid-
\* method error at once; it takes no id, starts no goroutine, and neither the
\* counter, the map nor the Requests written show a trace of it.
ValidStarted == {c \in Calls : cpc[c] # "idle" /\ OneDotNonEmpty(method[c])}

C8_Theorem ==
  /\ \A c \in Calls :
       (cpc[c] # "idle" /\ ~OneDotNonEmpty(method[c])) =>
         /\ cpc[c] = "done" /\ ret[c] = RetInvalid
         /\ callId[c] = 0 /\ dpc[c] = "none" /\ sends[c] = <<>>
  /\ seqId = Cardinality(ValidStarted) % IdSpace
  /\ \A i \in (DOMAIN calls) \cup written \cup wire :
       \E c \in ValidStarted : callId[c] = i

C8_Witness ==
  \E c, d \in Calls :
    /\ ret[c] = RetInvalid /\ method[c] = <<"a", Dot>>
    /\ c < d /\ Registered(d) /\ callId[d] = seqId

\* C9: on every method string, parseCall accepts iff Regular accepts, and both
\* accept exactly the strings with one dot and a non-empty part on each side.
C9_Theorem ==
  /\ pClient # "unset" => (pClient = "accept" <=> OneDotNonEmpty(pMethod))
  /\ pServer # "unset" => (pServer = "ok" <=> OneDotNonEmpty(pMethod))
  /\ (pClient # "unset" /\ pServer # "unset") => (pClient = "accept" <=> pServer = "ok")

C9_Witness ==
  /\ pMethod = <<"a", "b", Dot, "a">>
  /\ pClient = "accept"
  /\ pServer = "ok"

\* The service and method a well-formed method string names.
DotAt(s) == CHOOSE i \in 1 .. Len(s) : s[i] = Dot

Dispatchable(r) ==
  /\ OneDotNonEmpty(r.Method)
  /\ SubSeq(r.Method, 1, DotAt(r.Method) - 1) \in DOMAIN serviceMap
  /\ SubSeq(r.Method, DotAt(r.Method) + 1, Len(r.Method))
       \in DOMAIN serviceMap[SubSeq(r.Method, 1, DotAt(r.Method) - 1)].methodMap

\* C10: a Request with a malformed method, an unknown service or an unknown
\* method is answered with one error Response carrying its id, invokes
\* nothing, and leaves the session decoding; whatever came before it, a
\* Request that names a registered method is invoked and answered.
C10_Answers ==
  /\ Len(sout) <= Len(sreqs)
  /\ spc = "s90" => Len(sout) = Len(sreqs)
  /\ \A i \in 1 .. Len(sout) :
       /\ sout[i].Id = sreqs[i].Id
       /\ ~Dispatchable(sreqs[i]) =>
            /\ sout[i].Error # "" /\ sout[i].Result = ""
            /\ \A j \in 1 .. Len(invoked) : invoked[j].req # i
       /\ Dispatchable(sreqs[i]) =>
            \E j \in 1 .. Len(invoked) : invoked[j].req = i

C10_Step ==
  (spc = "s100" /\ ~Dispatchable(sreq)) =>
    /\ spc' = "s90"
    /\ Len(sout') = Len(sout) + 1
    /\ SubSeq(sout', 1, Len(sout)) = sout
    /\ invoked' = invoked

C10_Theorem == []C10_Answers /\ [][C10_Step]_vars

\* An undispatchable Request was answered with an error and the next Request,
\* a valid one, with a result.
C10_Witness ==
  /\ Len(sout) = 2
  /\ ~Dispatchable(sreqs[1]) /\ sout[1].Error # ""
  /\ Dispatchable(sreqs[2]) /\ sout[2].Error = "" /\ sout[2].Result = "output"

\* C11: a Request that names a registered method and whose payload does not
\* deserialize into the method's input is answered with an error Response for
\* its id, never with a success Response.
C11_Claim ==
  \A i \in 1 .. Len(sout) :
    (Dispatchable(sreqs[i]) /\ sreqs[i].Param = "bad") =>
      /\ sout[i].Id = sreqs[i].Id
      /\ sout[i].Error # ""

\* C12: when the invoked method returns a non-nil error the session's Response
\* for that id carries the error's text and an empty result, and a caller that
\* receives the Response returns an error with exactly that text and leaves
\* its output destination alone.
C12_Reply ==
  (spc = "s128" /\ spc' # "s128" /\ sret.err # "nil") =>
    sout' = Append(sout, [Id |-> sreq.Id, Result |-> "", Error |-> sret.err])

C12_Surfaced ==
  \A c \in Calls :
    (cpc[c] = "done" /\ ret[c].kind = "resp" /\ ret[c].resp.src = "conn") =>
      \E i \in 1 .. Len(sout) :
        /\ sout[i].Id = callId[c]
        /\ ret[c].resp = FromConn(sout[i])
        /\ sout[i].Error # "" =>
             /\ ret[c].err = sout[i].Error
             /\ ret[c].out = "untouched"
             /\ sout[i].Result = ""

C12_Theorem == []C12_Surfaced /\ [][C12_Reply]_vars

\* A Call of "a.b" was answered by the method's own error and returned it.
C12_Witness ==
  \E c \in Calls :
    /\ api[c] = "Call" /\ cpc[c] = "done"
    /\ ret[c].kind = "resp" /\ ret[c].resp.src = "conn"
    /\ ret[c].err = ErrApp /\ ret[c].out = "untouched"
    /\ \E j \in 1 .. Len(invoked) : sreqs[invoked[j].req].Id = callId[c]

\* No method of the receiver passes the tests of Register's loop.
ZeroQualifying(cand) == \A md \in cand.methods : ~Qualifies(md)

\* C13 as stated: Register of a receiver with zero qualifying methods returns
\* the "no exported method" error and leaves the registry as it was.
C13_Claim ==
  [][\A cand \in Candidates :
       (Register(cand) /\ ZeroQualifying(cand)) =>
         /\ regErr' = NoExportedMethod
         /\ serviceMap' = serviceMap]_vars

\* C13, amended: Register of a receiver with zero qualifying methods leaves
\* the registry as it was (an absent service stays absent, a present one is
\* not replaced) and returns the "no exported method" error if the receiver's
\* type has a name, the "invalid service name" error if it has none; no
\* service of the registry is ever without a method.
C13_Step ==
  \A cand \in Candidates :
    (Register(cand) /\ ZeroQualifying(cand)) =>
      /\ serviceMap' = serviceMap
      /\ regErr' = IF cand.name = <<>> THEN ErrServiceName ELSE NoExportedMethod

C13_Installed ==
  \A n \in DOMAIN serviceMap :
    /\ n # <<>>
    /\ DOMAIN serviceMap[n].methodMap # {}

C13_Theorem == []C13_Installed /\ [][C13_Step]_vars

\* Service "a" was registered and a later Register failed for want of a
\* qualifying method: "a" is as it was and "b" is absent.
C13_Witness ==
  /\ regs = 2
  /\ regErr = NoExportedMethod
  /\ DOMAIN serviceMap = {<<"a">>}
  /\ serviceMap[<<"a">>].receiver = 1
  /\ DOMAIN serviceMap[<<"a">>].methodMap = {<<"a">>, <<"b">>}

\* C14: a session handles its Requests one at a time.  At most one decoded
\* Request is unanswered, and only while the session is inside Connection.do;
\* the i-th Response answers the i-th Request decoded; a Request is decoded,
\* and a method invoked, only when every earlier Request has its Response; and
\* each Request is invoked at most once, in the order decoded.
C14_Serial ==
  /\ Len(sout) <= Len(sreqs)
  /\ Len(sreqs) <= Len(sout) + 1
  /\ Len(sreqs) = Len(sout) + 1 <=> spc \in {"s100", "s122", "s128"}
  /\ \A i \in 1 .. Len(sout) : sout[i].Id = sreqs[i].Id
  /\ \A j, k \in 1 .. Len(invoked) : j < k => invoked[j].req < invoked[k].req

C14_Step ==
  /\ Len(sreqs') > Len(sreqs) => Len(sout) = Len(sreqs)
  /\ invoked' # invoked =>
       /\ Len(sout) = Len(sreqs) - 1
       /\ invoked' = Append(invoked, invoked'[Len(invoked')])
       /\ invoked'[Len(invoked')].req = Len(sreqs)
  /\ sout' # sout =>
       /\ Len(sout') = Len(sreqs)
       /\ sout' = Append(sout, sout'[Len(sout')])

C14_Theorem == []C14_Serial /\ [][C14_Step]_vars

\* Two Requests, the first answered with the method's error and the second
\* with a result, in the order they were decoded.
C14_Witness ==
  /\ Len(sreqs) = 2 /\ Len(sout) = 2 /\ Len(invoked) = 2
  /\ sreqs[1].Id = 2 /\ sreqs[2].Id = 1
  /\ sout[1].Id = 2 /\ sout[1].Error = ErrApp
  /\ sout[2].Id = 1 /\ sout[2].Error = ""

\* C15: every read and write of the outstanding-calls map is made by the
\* holder of the map lock, and the receive loop is never at its lookup while
\* a Client.do is at its insert or its delete.
C15_Claim ==
  /\ \A c \in Calls : dpc[c] \in {"d163", "d169"} => m = DoProc(c)
  /\ rpc \in {"r55", "r63", "r70"} => m = RecvProc
  /\ ~(rpc = "r55" /\ MapWriter)

\* C16: once the receive loop has finished its shutdown fan-out the
\* outstanding-calls map is empty, in that state and in every later one.
C16_Claim == rpc = "exit" => DOMAIN calls = {}

\* The tasks of the client that take locks.
LockTasks ==
  {RecvProc} \cup {DoProc(c) : c \in Calls} \cup {CloseProc(k) : k \in Closers}

\* Task p is at a Lock() of the send lock (67, 179).
WaitsSend(p) ==
  \/ p = RecvProc /\ rpc = "r67"
  \/ p[1] = "do" /\ dpc[p[2]] = "d179"

\* The holder of a lock is at a statement that does not wait for a lock and
\* that it can execute.
HolderRuns ==
  /\ m[1] = "do" => dpc[m[2]] \in {"d163", "d169"}
  /\ m[1] = "close" => kpc[m[2]] = "k200"
  /\ m = RecvProc =>
       /\ rpc \in {"r63", "r70"}
       /\ rpc = "r70" => \A c \in fanTodo : CanSend(c)
  /\ reqMutex[1] = "do" => dpc[reqMutex[2]] = "d187"
  /\ reqMutex = RecvProc =>
       /\ rpc \in {"r68", "r70"}
       /\ rpc = "r68" => m # RecvProc

\* C17: a task that holds both locks took the send lock first (only the
\* receive loop's fan-out does, 67-68); no task is at a Lock() of the send lock
\* while it holds the map lock; and whoever holds a lock can take its next
\* step, so no task waits for a lock for ever.
C17_Order ==
  /\ \A p \in LockTasks : (m = p /\ reqMutex = p) => (p = RecvProc /\ rpc = "r70")
  /\ \A p \in LockTasks : WaitsSend(p) => m # p
  /\ HolderRuns

\* The map lock is taken by a task that holds the send lock only at line 68.
C17_Step ==
  \A p \in LockTasks :
    (m # p /\ m' = p /\ reqMutex' = p) => (p = RecvProc /\ reqMutex = p)

C17_Theorem == []C17_Order /\ [][C17_Step]_vars

\* The fan-out holds both locks, with a send still to make, while one
\* Client.do waits for the send lock and another for the map lock.
C17_Witness ==
  /\ rpc = "r70" /\ m = RecvProc /\ reqMutex = RecvProc /\ fanTodo # {}
  /\ \E c, d \in Calls : dpc[c] = "d179" /\ dpc[d] = "d168"

\* C18: no task of the client is at an operation on the socket (Decode at 50,
\* Encode at 187, conn.Close() at 200) while it holds the map lock.
C18_Claim ==
  /\ rpc = "r50" => m # RecvProc
  /\ \A c \in Calls : dpc[c] = "d187" => m # DoProc(c)
  /\ \A k \in Closers : kpc[k] = "k200" => m # CloseProc(k)

\* The calls with a valid method started so far, and the place of c among them.
Rank(c) == Cardinality({d \in ValidStarted : d <= c})

\* C19: each call with a valid method adds one to the counter in one step and
\* takes the new value: the k-th valid call made on the client has id k modulo
\* the id space, the counter is the number of valid calls so far, no other
\* step changes it, and calls fewer than the id space apart have distinct ids.
C19_Numbered ==
  /\ seqId = (CallsBefore + Cardinality(ValidStarted)) % IdSpace
  /\ \A c \in ValidStarted : callId[c] = (CallsBefore + Rank(c)) % IdSpace
  /\ \A c, d \in ValidStarted : c # d => callId[c] # callId[d]

C19_Step ==
  /\ \A c \in Calls :
       (cpc[c] = "idle" /\ cpc'[c] # "idle") =>
         IF OneDotNonEmpty(method'[c])
           THEN seqId' = (seqId + 1) % IdSpace /\ callId'[c] = seqId'
           ELSE seqId' = seqId
  /\ seqId' # seqId => \E c \in Calls : cpc[c] = "idle" /\ cpc'[c] = "wait"
  /\ \A c \in Calls : cpc[c] # "idle" => callId'[c] = callId[c]

C19_Theorem == []C19_Numbered /\ [][C19_Step]_vars

\* Two valid calls in flight at once, the first of them with the id the
\* counter wrapped to.
C19_Witness ==
  \E c, d \in Calls :
    /\ c < d
    /\ cpc[c] = "wait" /\ cpc[d] = "wait" /\ dpc[c] = "d155" /\ dpc[d] = "d155"
    /\ callId[c] = 0 /\ callId[d] = 1 /\ seqId = 1

\* Every call in the outstanding-calls map has an empty completion channel.
RegisteredEmpty == \A i \in DOMAIN calls : done[calls[i]] = <<>>

\* C20: whenever the receive loop is neither between delivering a Response
\* and removing its id (62-63) nor inside the fan-out's range (70-72), every
\* call in the map has an empty completion channel; and each send of the
\* fan-out finds its channel empty.
C20_Claim ==
  /\ rpc \notin {"r62", "r63", "r70"} => RegisteredEmpty
  /\ rpc = "r70" => \A c \in fanTodo : CanSend(c)
====
